---- MODULE Spec2Model ----
(***************************************************************************)
(* Bufferization of the TCP dialect (lib/Dialect/TCP/Transforms/           *)
(* Bufferize.cpp): the shape transfer functions, the result allocator, the *)
(* two conversion patterns (tcp.broadcast_to -> loops, tcp.matmul ->       *)
(* linalg.fill + linalg.matmul), the pass that applies them as a partial   *)
(* conversion, and an interpreter of the emitted operations over concrete  *)
(* buffers.                                                                *)
(*                                                                         *)
(* A function body is a sequence of operations in program order (a         *)
(* pre-order walk); an operation nested in k loop bodies has depth k.      *)
(* SSA values are numbers: the function's block arguments are              *)
(* 1..Len(FuncArgs), every created operation draws fresh numbers.          *)
(***************************************************************************)
EXTENDS Integers, Sequences, FiniteSets, TLC

VARIABLES
    func,    \* the function body: a sequence of operations
    pc,      \* where the pass / the interpreter stands
    pos,     \* the operation the conversion is looking at (1-based)
    status,  \* "none" | "success" | "failure": what the pass reported
    orig,    \* the function body as it was when the current run started
    runs,    \* how many times the pass was started on this function
    nextId,  \* the next fresh SSA value number
    last,    \* the record of the last call (resolver, allocator or pattern)
    env,     \* interpreter: SSA value -> run-time value
    mem,     \* interpreter: buffer -> [shape, data]
    ip,      \* interpreter: the operation to execute next (1-based)
    fault    \* interpreter: an access outside a buffer has happened

vars == <<func, pc, pos, status, orig, runs, nextId, last, env, mem, ip, fault>>

---------------------------------------------------------------------------
(* Bounds of the model *)

MaxOps == 3       \* operations in an input function
MaxRank == 2      \* largest tensor rank
MaxExtent == 2    \* largest extent of a dimension
MaxResults == 2   \* results of an operation of a kind without pattern
MaxRuns == 2      \* runs of the pass on one function

(* tcp.matmul takes rank-2 operands: dimension 0 of lhs, dimension 1 of rhs *)
MatmulRank == 2

---------------------------------------------------------------------------
(* The IR *)

\* The block arguments of the function: two tensors and a shape.
FuncArgs == <<"tensor", "tensor", "shape">>

TensorArgs == {k \in DOMAIN FuncArgs : FuncArgs[k] = "tensor"}
ArgLhs == CHOOSE k \in TensorArgs : \A j \in TensorArgs : k <= j
ArgRhs == CHOOSE k \in TensorArgs : \A j \in TensorArgs : j <= k
ArgShape == CHOOSE k \in DOMAIN FuncArgs : FuncArgs[k] = "shape"
FirstFree == Len(FuncArgs) + 1

Op(name, operands, results, blockArgs, depth, attr) ==
    [name |-> name, operands |-> operands, results |-> results,
     blockArgs |-> blockArgs, depth |-> depth, attr |-> attr,
     inRank |-> 0, outRank |-> 0]

\* The dialect of an operation name: the text before the dot.
DialectOf(name) ==
    CASE name \in {"tcp.broadcast_to", "tcp.matmul", "tcp.add"} -> "tcp"
      [] name \in {"linalg.fill", "linalg.matmul"} -> "linalg"
      [] name \in {"scf.for", "scf.yield"} -> "scf"
      [] name \in {"shape.get_extent"} -> "shape"
      [] name \in {"refback.alloc_memref"} -> "refback"
      [] OTHER -> "std"

\* Max / min of two numbers
Min2(a, b) == IF a <= b THEN a ELSE b

\* C++ indexing seq[k] (0-based); 0, no SSA value, when k is out of range.
At(seq, k) == IF k + 1 \in DOMAIN seq THEN seq[k + 1] ELSE 0

\* seq[lo..hi]; empty when hi < lo
Slice(seq, lo, hi) == [k \in 1..(hi - lo + 1) |-> seq[lo + k - 1]]

---------------------------------------------------------------------------
(* The builder: operations are appended at the insertion point, which is  *)
(* in front of the operation being converted (or inside `depth` loops).   *)

Builder(next) == [ops |-> <<>>, next |-> next, depth |-> 0]

create(b, name, operands, attr) ==
    [b EXCEPT !.ops = Append(@, Op(name, operands, <<b.next>>, <<>>, b.depth, attr)),
              !.next = @ + 1]

createNoResult(b, name, operands) ==
    [b EXCEPT !.ops = Append(@, Op(name, operands, <<>>, <<>>, b.depth, 0))]

\* scf.for: the body's block argument is the induction variable; the
\* insertion point is left at the start of the body.
createFor(b, lb, ub, step) ==
    [b EXCEPT !.ops = Append(@, Op("scf.for", <<lb, ub, step>>, <<>>, <<b.next>>, b.depth, 0)),
              !.next = @ + 1,
              !.depth = @ + 1]

\* The terminators scf.for's builder put at the end of each body, reached
\* when the insertion guard restores the insertion point.
RECURSIVE closeLoops(_)
closeLoops(b) ==
    IF b.depth = 0 THEN b
    ELSE closeLoops([b EXCEPT !.ops = Append(@, Op("scf.yield", <<>>, <<>>, <<>>, b.depth, 0)),
                              !.depth = @ - 1])

---------------------------------------------------------------------------
(* bypassResultShapes: the shape transfer functions. OpBuilder builder(&op)  *)
(* creates in front of op, where the rewriter's insertion point is too.    *)

\* Variant: an operation is created before the kind is looked at
bypassResultShapesEager(op, b) ==
    IF op.name = "tcp.matmul"
    THEN [shapes |-> <<b.next + 2>>,
          b |-> create(create(create(b, "std.dim", <<op.operands[1]>>, 0),
                              "std.dim", <<op.operands[2]>>, 1),
                       "std.tensor_from_elements", <<b.next, b.next + 1>>, 0)]
    ELSE IF op.name = "tcp.broadcast_to"
    THEN [shapes |-> <<op.operands[2]>>, b |-> create(b, "std.dim", <<op.operands[1]>>, 0)]
    ELSE [shapes |-> <<>>, b |-> create(b, "std.dim", <<op.operands[1]>>, 0)]

bypassResultShapes(op, b) ==
    IF op.name = "tcp.broadcast_to"
    THEN [shapes |-> <<op.operands[2]>>, b |-> b]
    ELSE IF op.name = "tcp.matmul"
    THEN \* lhsRows = dim lhs, 0; rhsCols = dim rhs, 1; tensor_from_elements
         [shapes |-> <<b.next + 2>>,
          b |-> create(create(create(b, "std.dim", <<op.operands[1]>>, 0),
                              "std.dim", <<op.operands[2]>>, 1),
                       "std.tensor_from_elements", <<b.next, b.next + 1>>, 0)]
    ELSE [shapes |-> <<>>, b |-> b]

(* allocateResults: one refback.alloc_memref per zipped (result, shape) *)

\* One iteration of the loop over llvm::zip(op->getResults(), resultShapes)
allocStep(st, resultShape) ==
    [st EXCEPT !.b = create(st.b, "refback.alloc_memref", <<resultShape>>, 0),
               !.results = Append(@, st.b.next)]

\* Variant: the zip loop stops one pair early
zipLengthShort(results, resultShapes) ==
    IF Min2(Len(results), Len(resultShapes)) > 0
    THEN Min2(Len(results), Len(resultShapes)) - 1 ELSE 0

\* llvm::zip stops at the end of the shorter range
zipLength(results, resultShapes) == Min2(Len(results), Len(resultShapes))

RECURSIVE allocLoop(_, _, _)
allocLoop(st, n, k) ==
    IF k > n THEN st
    ELSE allocLoop(allocStep(st, st.shapes[k]), n, k + 1)

allocFrom(op, rs) ==
    allocLoop([failed |-> FALSE, results |-> <<>>, shapes |-> rs.shapes, b |-> rs.b],
              zipLength(op.results, rs.shapes), 1)

allocateResults(op, b) == allocFrom(op, bypassResultShapes(op, b))

---------------------------------------------------------------------------
(* LowerBroadcastToToLoopsPattern::matchAndRewrite. The rewrite threads a  *)
(* record st: the builder b and the values the C++ keeps in locals.        *)

\* Variant: the dimensions are aligned on the left
rankDiffZero(op) == 0

rankDiffOf(op) == op.outRank - op.inRank

\* resultMemref = (*resultsOrFailure)[0]; resultShape = resultShapes[0];
\* inputMemref = operands[0]
broadcastLocals(op, operands, ar) ==
    [b |-> ar.b, resultMemref |-> At(ar.results, 0), resultShape |-> At(ar.shapes, 0),
     inputMemref |-> operands[1], operand |-> op.operands[1],
     rankDiff |-> rankDiffOf(op),
     outputExtents |-> <<>>, inputDimRequiresBroadcasting |-> <<>>,
     c0 |-> 0, c1 |-> 0, inductionVariables |-> <<>>, inputIndices |-> <<>>,
     lookups |-> <<>>]

\* dimIndex = constant i; outputExtent = shape.get_extent resultShape, dimIndex
outputExtentStep(st, i) ==
    [st EXCEPT !.b = create(create(st.b, "std.constant", <<>>, i),
                            "shape.get_extent", <<st.resultShape, st.b.next>>, 0),
               !.outputExtents = Append(@, st.b.next + 1)]

RECURSIVE outputExtentsLoop(_, _, _)
outputExtentsLoop(st, i, e) ==
    IF i >= e THEN st ELSE outputExtentsLoop(outputExtentStep(st, i), i + 1, e)

\* inputExtent = dim op.operand(), i; cmpi ne, inputExtent, outputExtents[rankDiff + i]
requiresBroadcastingStep(st, i) ==
    [st EXCEPT !.b = create(create(st.b, "std.dim", <<st.operand>>, i),
                            "std.cmpi",
                            <<st.b.next, At(st.outputExtents, st.rankDiff + i)>>, 0),
               !.inputDimRequiresBroadcasting = Append(@, st.b.next + 1),
               !.lookups = Append(@, st.rankDiff + i)]

RECURSIVE requiresBroadcastingLoop(_, _, _)
requiresBroadcastingLoop(st, i, e) ==
    IF i >= e THEN st
    ELSE requiresBroadcastingLoop(requiresBroadcastingStep(st, i), i + 1, e)

\* c0 = constant 0; c1 = constant 1
loopConstants(st) ==
    [st EXCEPT !.b = create(create(st.b, "std.constant", <<>>, 0), "std.constant", <<>>, 1),
               !.c0 = st.b.next,
               !.c1 = st.b.next + 1]

\* loop = scf.for c0 to outputExtents[i] step c1; the induction variable is
\* kept and the insertion point moves to the start of the body
createLoopStep(st, i) ==
    [st EXCEPT !.b = createFor(st.b, st.c0, At(st.outputExtents, i), st.c1),
               !.inductionVariables = Append(@, st.b.next)]

RECURSIVE createLoops(_, _, _)
createLoops(st, i, e) ==
    IF i >= e THEN st ELSE createLoops(createLoopStep(st, i), i + 1, e)

\* Variant: the two values of the select are swapped
selectOperandsSwapped(flag, c0, iv) == <<flag, iv, c0>>

\* select inputDimRequiresBroadcasting[i], c0, inductionVariables[rankDiff + i]
selectOperands(flag, c0, iv) == <<flag, c0, iv>>

\* c0 = constant 0; select
inputIndexStep(st, i) ==
    [st EXCEPT !.b = create(create(st.b, "std.constant", <<>>, 0),
                            "std.select",
                            selectOperands(At(st.inputDimRequiresBroadcasting, i),
                                           st.b.next,
                                           At(st.inductionVariables, st.rankDiff + i)), 0),
               !.inputIndices = Append(@, st.b.next + 1),
               !.lookups = Append(@, st.rankDiff + i)]

RECURSIVE inputIndicesLoop(_, _, _)
inputIndicesLoop(st, i, e) ==
    IF i >= e THEN st ELSE inputIndicesLoop(inputIndexStep(st, i), i + 1, e)

\* store load, resultMemref[inductionVariables]
storeOperands(load, resultMemref, inductionVariables) ==
    <<load, resultMemref>> \o inductionVariables

\* load = load inputMemref[inputIndices]; store; the insertion guard ends
loadStore(st) ==
    [st EXCEPT !.b = closeLoops(
        createNoResult(create(st.b, "std.load", <<st.inputMemref>> \o st.inputIndices, 0),
                       "std.store",
                       storeOperands(st.b.next, st.resultMemref, st.inductionVariables)))]

\* st.lookups: the indices rankDiff + i at which outputExtents and
\* inductionVariables were read during the rewrite
broadcastResult(st) ==
    [failed |-> FALSE, b |-> st.b, repl |-> <<st.resultMemref>>,
     lookups |-> st.lookups]

broadcastRewrite(op, operands, ar) ==
    IF ar.failed
    THEN [failed |-> TRUE, b |-> ar.b, repl |-> <<>>, lookups |-> <<>>]
    ELSE broadcastResult(
           loadStore(
             inputIndicesLoop(
               createLoops(
                 loopConstants(
                   requiresBroadcastingLoop(
                     outputExtentsLoop(broadcastLocals(op, operands, ar), 0, op.outRank),
                     0, op.inRank)),
                 0, op.outRank),
               0, op.inRank)))

LowerBroadcastToToLoopsPattern(op, operands, b) ==
    broadcastRewrite(op, operands, allocateResults(op, b))

(* BufferizeMatmulOp::matchAndRewrite *)

\* rewriter.getF32FloatAttr(0.0)
fillValue == 0

\* Variant: the output buffer is not filled
matmulRewriteNoFill(op, operands, ar) ==
    [failed |-> FALSE,
     b |-> createNoResult(create(ar.b, "std.constant", <<>>, fillValue),
                          "linalg.matmul", operands \o ar.results),
     repl |-> ar.results, lookups |-> <<>>]

\* Variant: the multiply is created as a tcp.matmul on the buffers
matmulRewriteTcp(op, operands, ar) ==
    [failed |-> FALSE,
     b |-> createNoResult(
             createNoResult(create(ar.b, "std.constant", <<>>, fillValue),
                            "linalg.fill", <<At(ar.results, 0), ar.b.next>>),
             "tcp.matmul", operands \o ar.results),
     repl |-> ar.results, lookups |-> <<>>]

\* c0 = constant 0.0; linalg.fill results[0], c0; linalg.matmul operands, results
matmulRewrite(op, operands, ar) ==
    IF ar.failed
    THEN [failed |-> TRUE, b |-> ar.b, repl |-> <<>>, lookups |-> <<>>]
    ELSE [failed |-> FALSE,
          b |-> createNoResult(
                  createNoResult(create(ar.b, "std.constant", <<>>, fillValue),
                                 "linalg.fill", <<At(ar.results, 0), ar.b.next>>),
                  "linalg.matmul", operands \o ar.results),
          repl |-> ar.results, lookups |-> <<>>]

BufferizeMatmulOp(op, operands, b) ==
    matmulRewrite(op, operands, allocateResults(op, b))

---------------------------------------------------------------------------
(* TCPBufferizePass::runOnOperation: the conversion target, the patterns   *)
(* and applyPartialConversion                                              *)

\* target.addLegalOp<...>()
LegalOps == {"refback.alloc_memref", "shape.get_extent"}
\* target.addLegalDialect<...>()
LegalDialects == {"linalg", "std", "scf"}
\* target.addIllegalOp<...>()
IllegalOps == {"tcp.broadcast_to", "tcp.matmul"}

isLegal(op) == op.name \in LegalOps \/ DialectOf(op.name) \in LegalDialects
isIllegal(op) == op.name \in IllegalOps

\* Variant: the matmul pattern is registered for linalg.matmul as well
patternForEither(name) ==
    CASE name = "tcp.broadcast_to" -> "LowerBroadcastToToLoopsPattern"
      [] name \in {"tcp.matmul", "linalg.matmul"} -> "BufferizeMatmulOp"
      [] OTHER -> "none"

\* patterns.insert<...>(): the pattern registered for an operation name
patternFor(name) ==
    CASE name = "tcp.broadcast_to" -> "LowerBroadcastToToLoopsPattern"
      [] name = "tcp.matmul" -> "BufferizeMatmulOp"
      [] OTHER -> "none"

matchAndRewrite(op, operands, b) ==
    IF patternFor(op.name) = "LowerBroadcastToToLoopsPattern"
    THEN LowerBroadcastToToLoopsPattern(op, operands, b)
    ELSE BufferizeMatmulOp(op, operands, b)

\* Every use of a value of `from` becomes the value of `to` at the same place.
remap(v, from, to) ==
    IF \E k \in DOMAIN from : from[k] = v /\ k \in DOMAIN to
    THEN to[CHOOSE k \in DOMAIN from : from[k] = v /\ k \in DOMAIN to]
    ELSE v

rebind(op, from, to) ==
    [op EXCEPT !.operands = [k \in DOMAIN op.operands |-> remap(op.operands[k], from, to)]]

\* The created operations go in front of the operation at p (the insertion
\* point of the rewriter and of OpBuilder(&op)).
insertCreated(f, p, created) ==
    Slice(f, 1, p - 1) \o created \o Slice(f, p, Len(f))

\* rewriter.replaceOp(op, values): the operation at p goes away and its
\* consumers read the replacement values.
replaceOp(f, p, values) ==
    [k \in 1..(Len(f) - 1) |->
       IF k < p THEN f[k] ELSE rebind(f[k + 1], f[p].results, values)]

\* Variant: the created operations are placed at the end of the function
applyRewriteAtEnd(f, p, next, r) ==
    [func |-> replaceOp(f, p, r.repl) \o r.b.ops,
     next |-> r.b.next, pos |-> p, applied |-> TRUE,
     failed |-> FALSE, created |-> r.b.ops, repl |-> r.repl,
     lookups |-> r.lookups, op |-> f[p]]

\* The pattern's outcome r applied to the function
applyRewrite(f, p, next, r) ==
    IF r.failed
    THEN [func |-> f, next |-> next, pos |-> p + 1, applied |-> FALSE,
          failed |-> TRUE, created |-> <<>>, repl |-> <<>>, lookups |-> <<>>,
          op |-> f[p]]
    ELSE [func |-> replaceOp(insertCreated(f, p, r.b.ops), p + Len(r.b.ops), r.repl),
          next |-> r.b.next, pos |-> p + Len(r.b.ops), applied |-> TRUE,
          failed |-> FALSE, created |-> r.b.ops, repl |-> r.repl,
          lookups |-> r.lookups, op |-> f[p]]

\* One operation legalized by its pattern
legalize(f, p, next) ==
    applyRewrite(f, p, next, matchAndRewrite(f[p], f[p].operands, Builder(next)))

\* The first operation at or after p that has a pattern; 0 when there is none.
\* (Operations without pattern are passed over: nothing is done to them.)
nextToConvert(f, p) ==
    IF \E k \in p..Len(f) : patternFor(f[k].name) # "none"
    THEN CHOOSE k \in p..Len(f) :
           /\ patternFor(f[k].name) # "none"
           /\ \A j \in p..(k - 1) : patternFor(f[j].name) = "none"
    ELSE 0

\* Variant: a full conversion, which fails when any operation is not legal
conversionFailsFull(f) == \E k \in DOMAIN f : ~isLegal(f[k])

\* Partial conversion: the conversion fails when an operation explicitly
\* marked illegal is left.
conversionFails(f) == \E k \in DOMAIN f : isIllegal(f[k])

InterpIdle == env = <<>> /\ mem = <<>> /\ ip = 0 /\ fault = FALSE

\* runOnOperation is entered
Start ==
    /\ pc \in {"idle", "done"}
    /\ runs < MaxRuns
    /\ pc' = "convert"
    /\ pos' = 1
    /\ orig' = func
    /\ runs' = runs + 1
    /\ status' = "none"
    /\ last' = [call |-> "none"]
    /\ UNCHANGED <<func, nextId, env, mem, ip, fault>>

\* applyPartialConversion reaches the next operation that has a pattern
Convert ==
    /\ pc = "convert"
    /\ nextToConvert(func, pos) # 0
    /\ \E r \in {legalize(func, nextToConvert(func, pos), nextId)} :
          /\ func' = r.func
          /\ nextId' = r.next
          /\ pos' = r.pos
          /\ last' = [call |-> "pattern", op |-> r.op, applied |-> r.applied,
                      failed |-> r.failed, created |-> r.created, repl |-> r.repl,
                      lookups |-> r.lookups, before |-> func]
    /\ UNCHANGED <<pc, status, orig, runs, env, mem, ip, fault>>

\* applyPartialConversion returns; signalPassFailure on failure
Finish ==
    /\ pc = "convert"
    /\ nextToConvert(func, pos) = 0
    /\ status' = IF conversionFails(func) THEN "failure" ELSE "success"
    /\ pc' = "done"
    /\ UNCHANGED <<func, pos, orig, runs, nextId, last, env, mem, ip, fault>>

---------------------------------------------------------------------------
(* The input functions *)

SourceOp(name, operands, results, inRank, outRank) ==
    [Op(name, operands, results, <<>>, 0, 0) EXCEPT !.inRank = inRank, !.outRank = outRank]

\* The rank of tensor value v of function f (every operation of an input
\* function has one result; the tensor arguments are matrices).
RankOfValue(f, v) == IF v < FirstFree THEN MatmulRank ELSE f[v - FirstFree + 1].outRank

NextOps(f) ==
    LET r == FirstFree + Len(f)
        avail == {ArgLhs} \cup {FirstFree + k - 1 : k \in 1..Len(f)}
    IN UNION {
         {SourceOp("tcp.broadcast_to", <<x, ArgShape>>, <<r>>, RankOfValue(f, x), ro) :
            ro \in RankOfValue(f, x)..MaxRank}
         \cup {SourceOp("tcp.matmul", <<x, ArgRhs>>, <<r>>, MatmulRank, MatmulRank) :
            y \in {z \in {x} : RankOfValue(f, z) = MatmulRank}}
         \cup {SourceOp("std.exp", <<x>>, <<r>>, RankOfValue(f, x), RankOfValue(f, x)),
               SourceOp("tcp.add", <<x, x>>, <<r>>, RankOfValue(f, x), RankOfValue(f, x))}
         : x \in avail}

RECURSIVE Funcs(_)
Funcs(n) ==
    IF n = 0 THEN {<<>>}
    ELSE UNION {{Append(f, o) : o \in NextOps(f)} : f \in Funcs(n - 1)}

InputFuncs == UNION {Funcs(n) : n \in 0..MaxOps}

Init ==
    /\ func \in InputFuncs
    /\ pc = "idle"
    /\ pos = 0
    /\ status = "none"
    /\ orig = func
    /\ runs = 0
    /\ nextId = FirstFree + Len(func)
    /\ last = [call |-> "none"]
    /\ InterpIdle

Next == Start \/ Convert \/ Finish

Spec == Init /\ [][Next]_vars

---------------------------------------------------------------------------
(* bypassResultShapes and allocateResults called on one operation of a     *)
(* function, of any kind and with any number of results                    *)

\* An operation of a kind without shape transfer function, with n results
CallOp(f, n) ==
    SourceOp("std.call", <<ArgLhs>>, [k \in 1..n |-> FirstFree + Len(f) + k - 1], 0, 0)

AllocInputs ==
    (InputFuncs \ {<<>>})
    \cup UNION {{Append(f, CallOp(f, n)) : n \in 0..MaxResults} :
                f \in UNION {Funcs(n) : n \in 0..(MaxOps - 1)}}

InitAlloc ==
    /\ func \in AllocInputs
    /\ pc = "idle"
    /\ pos = 0
    /\ status = "none"
    /\ orig = func
    /\ runs = 0
    /\ nextId = FirstFree + Len(func) + Len(func[Len(func)].results)
    /\ last = [call |-> "none"]
    /\ InterpIdle

\* bypassResultShapes(op) on the operation at p
CallResolve ==
    /\ pc = "idle"
    /\ \E p \in DOMAIN func :
       \E r \in {bypassResultShapes(func[p], Builder(nextId))} :
         /\ func' = insertCreated(func, p, r.b.ops)
         /\ nextId' = r.b.next
         /\ pos' = p
         /\ last' = [call |-> "resolve", op |-> func[p], before |-> func,
                     shapes |-> r.shapes, created |-> r.b.ops]
    /\ pc' = "called"
    /\ UNCHANGED <<status, orig, runs, env, mem, ip, fault>>

\* allocateResults(op, rewriter, loc) on the operation at p
CallAllocate ==
    /\ pc = "idle"
    /\ \E p \in DOMAIN func :
       \E r \in {allocateResults(func[p], Builder(nextId))} :
         /\ func' = insertCreated(func, p, r.b.ops)
         /\ nextId' = r.b.next
         /\ pos' = p
         /\ last' = [call |-> "allocate", op |-> func[p], before |-> func,
                     failed |-> r.failed, results |-> r.results,
                     shapes |-> r.shapes, created |-> r.b.ops]
    /\ pc' = "called"
    /\ UNCHANGED <<status, orig, runs, env, mem, ip, fault>>

NextAlloc == CallResolve \/ CallAllocate

SpecAlloc == InitAlloc /\ [][NextAlloc]_vars

---------------------------------------------------------------------------
(* Execution of a converted function over concrete buffers. A tensor or   *)
(* memref value is the key of its buffer in mem; a buffer is its shape and *)
(* its elements, indexed by 0-based index tuples.                          *)

\* Contents of freshly allocated memory: not initialized, any of these.
UninitValues == {0, -1}

RECURSIVE Volume(_)
Volume(shape) == IF shape = <<>> THEN 1 ELSE Head(shape) * Volume(Tail(shape))

MaxOf(shape) == IF shape = <<>> THEN 0
                ELSE CHOOSE m \in {shape[k] : k \in DOMAIN shape} :
                       \A k \in DOMAIN shape : shape[k] <= m

\* The index tuples of a buffer of the given shape
IndexSpace(shape) ==
    {t \in [DOMAIN shape -> 0..(MaxOf(shape) - 1)] : \A k \in DOMAIN shape : t[k] < shape[k]}

\* Row-major position of index tuple t
RECURSIVE Linear(_, _)
Linear(shape, t) ==
    IF shape = <<>> THEN 0
    ELSE Head(t) * Volume(Tail(shape)) + Linear(Tail(shape), Tail(t))

\* An input buffer whose elements are pairwise different: 1 + row-major position
InputBuffer(shape) ==
    [shape |-> shape, data |-> [t \in IndexSpace(shape) |-> 1 + Linear(shape, t)]]

Bind(e, id, v) == (id :> v) @@ e

opIndices(op, from) == [k \in 1..(Len(op.operands) - from + 1) |-> env[op.operands[from + k - 1]]]

inBounds(buf, t) == t \in DOMAIN mem[buf].data

RECURSIVE Dot(_, _, _, _, _)
Dot(a, b, i, j, k) ==
    IF k = 0 THEN 0
    ELSE a.data[<<i, k - 1>>] * b.data[<<k - 1, j>>] + Dot(a, b, i, j, k - 1)

\* linalg.matmul: C(i, j) += sum over k of A(i, k) * B(k, j)
matmulKernel(a, b, c) ==
    [c EXCEPT !.data = [t \in DOMAIN c.data |-> c.data[t] + Dot(a, b, t[1], t[2], a.shape[2])]]

\* linalg.fill: every element becomes v
fillKernel(c, v) == [c EXCEPT !.data = [t \in DOMAIN c.data |-> v]]

\* The value a side-effect free operation computes
scalarValue(op) ==
    CASE op.name = "std.constant" -> op.attr
      [] op.name = "std.dim" -> mem[env[op.operands[1]]].shape[op.attr + 1]
      [] op.name = "std.tensor_from_elements" ->
            [k \in DOMAIN op.operands |-> env[op.operands[k]]]
      [] op.name = "shape.get_extent" -> env[op.operands[1]][env[op.operands[2]] + 1]
      [] op.name = "std.cmpi" -> (env[op.operands[1]] # env[op.operands[2]])
      [] op.name = "std.select" ->
            IF env[op.operands[1]] THEN env[op.operands[2]] ELSE env[op.operands[3]]

ScalarOps == {"std.constant", "std.dim", "std.tensor_from_elements", "shape.get_extent",
              "std.cmpi", "std.select"}

\* The position after the body of the loop at p
afterLoop(f, p) ==
    IF \E q \in (p + 1)..Len(f) : f[q].depth <= f[p].depth
    THEN CHOOSE q \in (p + 1)..Len(f) :
           /\ f[q].depth <= f[p].depth
           /\ \A x \in (p + 1)..(q - 1) : f[x].depth > f[p].depth
    ELSE Len(f) + 1

\* The loop whose body the terminator at p ends
loopOf(f, p) ==
    CHOOSE q \in 1..(p - 1) :
      /\ f[q].name = "scf.for" /\ f[q].depth = f[p].depth - 1
      /\ \A x \in (q + 1)..(p - 1) : ~(f[x].name = "scf.for" /\ f[x].depth = f[p].depth - 1)

\* The converted function starts to run
Begin ==
    /\ pc = "done" /\ status = "success"
    /\ pc' = "run"
    /\ ip' = 1
    /\ UNCHANGED <<func, pos, status, orig, runs, nextId, last, env, mem, fault>>

ExecScalar ==
    /\ pc = "run" /\ ip <= Len(func)
    /\ func[ip].name \in ScalarOps
    /\ env' = Bind(env, func[ip].results[1], scalarValue(func[ip]))
    /\ ip' = ip + 1
    /\ UNCHANGED <<func, pc, pos, status, orig, runs, nextId, last, mem, fault>>

\* refback.alloc_memref: a new buffer of the given shape, not initialized
ExecAlloc ==
    /\ pc = "run" /\ ip <= Len(func)
    /\ func[ip].name = "refback.alloc_memref"
    /\ \E g \in UninitValues :
         mem' = Bind(mem, func[ip].results[1],
                     [shape |-> env[func[ip].operands[1]],
                      data |-> [t \in IndexSpace(env[func[ip].operands[1]]) |-> g]])
    /\ env' = Bind(env, func[ip].results[1], func[ip].results[1])
    /\ ip' = ip + 1
    /\ UNCHANGED <<func, pc, pos, status, orig, runs, nextId, last, fault>>

\* load memref[indices]. An access outside the buffer is undefined
\* behaviour: anything may follow, and no state after it is modelled.
ExecLoad ==
    /\ pc = "run" /\ ip <= Len(func)
    /\ func[ip].name = "std.load"
    /\ \E buf \in {env[func[ip].operands[1]]}, t \in {opIndices(func[ip], 2)} :
         IF inBounds(buf, t)
         THEN /\ env' = Bind(env, func[ip].results[1], mem[buf].data[t])
              /\ ip' = ip + 1
              /\ UNCHANGED <<pc, fault>>
         ELSE /\ pc' = "undefined"
              /\ fault' = TRUE
              /\ UNCHANGED <<env, ip>>
    /\ UNCHANGED <<func, pos, status, orig, runs, nextId, last, mem>>

\* store value, memref[indices]
ExecStore ==
    /\ pc = "run" /\ ip <= Len(func)
    /\ func[ip].name = "std.store"
    /\ \E buf \in {env[func[ip].operands[2]]}, t \in {opIndices(func[ip], 3)} :
         IF inBounds(buf, t)
         THEN /\ mem' = [mem EXCEPT ![buf].data[t] = env[func[ip].operands[1]]]
              /\ ip' = ip + 1
              /\ UNCHANGED <<pc, fault>>
         ELSE /\ pc' = "undefined"
              /\ fault' = TRUE
              /\ UNCHANGED <<mem, ip>>
    /\ UNCHANGED <<func, pos, status, orig, runs, nextId, last, env>>

ExecFill ==
    /\ pc = "run" /\ ip <= Len(func)
    /\ func[ip].name = "linalg.fill"
    /\ mem' = [mem EXCEPT ![env[func[ip].operands[1]]] = fillKernel(@, env[func[ip].operands[2]])]
    /\ ip' = ip + 1
    /\ UNCHANGED <<func, pc, pos, status, orig, runs, nextId, last, env, fault>>

ExecMatmul ==
    /\ pc = "run" /\ ip <= Len(func)
    /\ func[ip].name = "linalg.matmul"
    /\ mem' = [mem EXCEPT ![env[func[ip].operands[3]]] =
                 matmulKernel(mem[env[func[ip].operands[1]]],
                              mem[env[func[ip].operands[2]]], @)]
    /\ ip' = ip + 1
    /\ UNCHANGED <<func, pc, pos, status, orig, runs, nextId, last, env, fault>>

\* scf.for lb to ub step s: the induction variable starts at lb
ExecFor ==
    /\ pc = "run" /\ ip <= Len(func)
    /\ func[ip].name = "scf.for"
    /\ env' = Bind(env, func[ip].blockArgs[1], env[func[ip].operands[1]])
    /\ ip' = IF env[func[ip].operands[1]] < env[func[ip].operands[2]]
             THEN ip + 1 ELSE afterLoop(func, ip)
    /\ UNCHANGED <<func, pc, pos, status, orig, runs, nextId, last, mem, fault>>

\* scf.yield: the end of a loop body, the next iteration or the loop's exit
ExecYield ==
    /\ pc = "run" /\ ip <= Len(func)
    /\ func[ip].name = "scf.yield"
    /\ \E loop \in {func[loopOf(func, ip)]} :
       \E iv \in {env[loop.blockArgs[1]] + env[loop.operands[3]]} :
         IF iv < env[loop.operands[2]]
         THEN /\ env' = Bind(env, loop.blockArgs[1], iv)
              /\ ip' = loopOf(func, ip) + 1
         ELSE /\ env' = env
              /\ ip' = ip + 1
    /\ UNCHANGED <<func, pc, pos, status, orig, runs, nextId, last, mem, fault>>

\* The function returns
Return ==
    /\ pc = "run" /\ ip > Len(func)
    /\ pc' = "ran"
    /\ UNCHANGED <<func, pos, status, orig, runs, nextId, last, env, mem, ip, fault>>

Shapes(r) == [1..r -> 0..MaxExtent]

\* The input shapes tried against an output shape: right-aligned, of rank
\* at most the output's, each extent the output's (no broadcast), 1 (a legal
\* broadcast when they differ) or 0 (not a legal broadcast when they differ).
InputShapesFor(outShape) ==
    UNION {{inShape \in Shapes(r) :
              \A k \in 1..r : inShape[k] \in {outShape[Len(outShape) - r + k], 1, 0}} :
           r \in 0..Len(outShape)}

BroadcastInputs ==
    {[op |-> SourceOp("tcp.broadcast_to", <<ArgLhs, ArgShape>>, <<FirstFree>>,
                      Len(x[1]), Len(x[2])),
      lhs |-> InputBuffer(x[1]), rhs |-> InputBuffer(x[1]), shape |-> x[2]] :
       x \in UNION {{<<inShape, outShape>> : inShape \in InputShapesFor(outShape)} :
                    outShape \in UNION {Shapes(r) : r \in 0..MaxRank}}}

MatmulInputs ==
    {[op |-> SourceOp("tcp.matmul", <<ArgLhs, ArgRhs>>, <<FirstFree>>, MatmulRank, MatmulRank),
      lhs |-> InputBuffer(<<d[1], d[2]>>), rhs |-> InputBuffer(<<d[2], d[3]>>),
      shape |-> <<>>] :
       d \in [1..3 -> 0..MaxExtent]}

\* One tcp operation with its run-time operands; the broadcast has an input
\* rank no larger than the output rank (its dimensions are right-aligned).
InitExec ==
    /\ \E x \in BroadcastInputs \cup MatmulInputs :
         /\ func = <<x.op>>
         /\ env = (ArgLhs :> ArgLhs) @@ (ArgRhs :> ArgRhs) @@ (ArgShape :> x.shape)
         /\ mem = (ArgLhs :> x.lhs) @@ (ArgRhs :> x.rhs)
    /\ pc = "idle"
    /\ pos = 0
    /\ status = "none"
    /\ orig = func
    /\ runs = 0
    /\ nextId = FirstFree + Len(func)
    /\ last = [call |-> "none"]
    /\ ip = 0
    /\ fault = FALSE

NextExec ==
    \/ Start \/ Convert \/ Finish \/ Begin \/ ExecScalar \/ ExecAlloc \/ ExecLoad
    \/ ExecStore \/ ExecFill \/ ExecMatmul \/ ExecFor \/ ExecYield \/ Return

SpecExec == InitExec /\ [][NextExec]_vars

---------------------------------------------------------------------------
(* Properties *)

NamesOf(f) == [k \in DOMAIN f |-> f[k].name]

\* A legal broadcast: right-aligned, input rank at most the output rank,
\* every input extent that differs from the aligned output extent is 1.
LegalBroadcast(inShape, outShape) ==
    /\ Len(inShape) <= Len(outShape)
    /\ \A k \in DOMAIN inShape :
         inShape[k] # outShape[Len(outShape) - Len(inShape) + k] => inShape[k] = 1

\* The input index the broadcast contract pairs with output index j
ExpectedIndex(inShape, outShape, j) ==
    [k \in DOMAIN inShape |->
       IF inShape[k] # outShape[Len(outShape) - Len(inShape) + k]
       THEN 0 ELSE j[Len(outShape) - Len(inShape) + k]]

BroadcastCase == orig # <<>> /\ orig[1].name = "tcp.broadcast_to"
MatmulCase == orig # <<>> /\ orig[1].name = "tcp.matmul"

(* C1: after the code generated for a legal broadcast has run, the output  *)
(* buffer has the shape asked for and output[j] = input[i] for every       *)
(* output index j, where i_k = 0 when input dimension k differs from the   *)
(* aligned output dimension and i_k = j_(rankDiff + k) otherwise.          *)
C1_BroadcastCorrect ==
    (pc = "ran" /\ BroadcastCase /\ LegalBroadcast(mem[ArgLhs].shape, env[ArgShape]))
    => /\ last.call = "pattern" /\ last.applied
       /\ mem[last.repl[1]].shape = env[ArgShape]
       /\ \A j \in IndexSpace(env[ArgShape]) :
            mem[last.repl[1]].data[j] =
              mem[ArgLhs].data[ExpectedIndex(mem[ArgLhs].shape, env[ArgShape], j)]

\* input [1,2] broadcast to [2,2] has run: output(j0,j1) = input(0,j1)
C1_Witness ==
    /\ pc = "ran" /\ BroadcastCase
    /\ mem[ArgLhs].shape = <<1, MaxExtent>>
    /\ env[ArgShape] = <<MaxExtent, MaxExtent>>
    /\ mem[last.repl[1]].data[<<1, 1>>] = mem[ArgLhs].data[<<0, 1>>]

Unsupported(op) == patternFor(op.name) = "none" /\ ~isLegal(op)

Kept(f, created) ==
    LET old(o) == \A k \in DOMAIN created : created[k] # o
    IN SelectSeq(f, old)

(* C3 as stated: a call of the resolver leaves the program as it was, for  *)
(* every operation kind.                                                   *)
C3_ResolverPure ==
    last.call = "resolve" => func = last.before

(* C3 amended: for tcp.broadcast_to and for any kind without shape         *)
(* transfer function the resolver leaves the program as it was; for        *)
(* tcp.matmul it adds three operations (dim of lhs, dim of rhs,            *)
(* tensor_from_elements of the two) right in front of the operation and    *)
(* removes or modifies no operation that was there.                        *)
C3_ResolverAddsOnlyForMatmul ==
    last.call = "resolve"
    => /\ Kept(func, last.created) = last.before
       /\ Len(func) = Len(last.before) + Len(last.created)
       /\ last.op.name # "tcp.matmul" => (last.created = <<>> /\ func = last.before)
       /\ last.op.name = "tcp.matmul"
          => /\ NamesOf(last.created) = <<"std.dim", "std.dim", "std.tensor_from_elements">>
             /\ func[pos + Len(last.created)] = last.op
             /\ \A k \in DOMAIN last.created : func[pos + k - 1] = last.created[k]
             /\ last.shapes = last.created[Len(last.created)].results

\* the resolver was called on a tcp.matmul that is not the first operation
C3_Witness ==
    /\ last.call = "resolve" /\ last.op.name = "tcp.matmul"
    /\ pos > 1
    /\ Len(func) > Len(last.before)

(* C4 as stated: when the resolver returns fewer shapes than the operation *)
(* has results, allocation fails and nothing is emitted.                   *)
C4_ShortShapesFail ==
    (last.call = "allocate" /\ Len(last.shapes) < Len(last.op.results))
    => last.failed

AllocsOf(f) == {k \in DOMAIN f : f[k].name = "refback.alloc_memref"}

(* C5: a run on a function of legal operations only leaves the function    *)
(* as it was, creates nothing and reports success; so does a second run,   *)
(* on the output of the run before.                                        *)
C5_LegalUnchanged ==
    (pc = "done" /\ ((\A k \in DOMAIN orig : isLegal(orig[k])) \/ runs > 1))
    => /\ func = orig
       /\ status = "success"
       /\ last.call = "none"

\* a second run, on a function the first run converted to legal operations
C5_Witness ==
    /\ pc = "done" /\ runs > 1 /\ status = "success"
    /\ \A k \in DOMAIN orig : isLegal(orig[k])
    /\ \E k \in DOMAIN orig : orig[k].name = "linalg.matmul"
    /\ \E k \in DOMAIN orig : orig[k].name = "scf.for"
    /\ func = orig

(* C6: for an operation with N results and M <= N resolved shapes the      *)
(* allocator returns min(N, M) buffers, buffer k allocated with shape k,   *)
(* by exactly one refback.alloc_memref each, and none for the results      *)
(* after the M-th.                                                         *)
C6_AllocationCount ==
    (last.call = "allocate" /\ Len(last.shapes) <= Len(last.op.results))
    => /\ Len(last.results) = Min2(Len(last.op.results), Len(last.shapes))
       /\ Cardinality(AllocsOf(last.created)) = Len(last.results)
       /\ \A k \in DOMAIN last.results :
            /\ Cardinality({a \in AllocsOf(last.created) :
                              last.created[a].results = <<last.results[k]>>}) = 1
            /\ \A a \in AllocsOf(last.created) :
                 last.created[a].results = <<last.results[k]>>
                 => last.created[a].operands = <<last.shapes[k]>>
       /\ \A k \in DOMAIN last.results, j \in DOMAIN last.results :
            k # j => last.results[k] # last.results[j]
       /\ \A k \in DOMAIN last.created : func[pos + k - 1] = last.created[k]

\* one buffer was allocated for the result of a tcp.matmul
C6_Witness ==
    /\ last.call = "allocate"
    /\ last.op.name = "tcp.matmul"
    /\ Len(last.op.results) = 1 /\ Len(last.shapes) = 1 /\ Len(last.results) = 1
    /\ AllocsOf(last.created) # {}

Writes(o, b) ==
    \/ o.name = "std.store" /\ o.operands[2] = b
    \/ o.name = "linalg.fill" /\ o.operands[1] = b
    \/ o.name = "linalg.matmul" /\ o.operands[Len(o.operands)] = b

Uses(o, b) == \E k \in DOMAIN o.operands : o.operands[k] = b

(* C7: in program order the allocation of an output buffer comes before    *)
(* every write to it, and every write to it before every operation that    *)
(* only reads it (the former consumers of the tensor it replaces).         *)
C7_AllocWriteRead ==
    \A a \in AllocsOf(func) :
       /\ \E w \in DOMAIN func : Writes(func[w], func[a].results[1])
       /\ \A u \in DOMAIN func :
            Uses(func[u], func[a].results[1])
            => /\ a < u
               /\ ~Writes(func[u], func[a].results[1])
                  => \A w \in DOMAIN func : Writes(func[w], func[a].results[1]) => w < u

\* matmul, broadcast of its result, std.exp of the broadcast: all converted
C7_Witness ==
    /\ pc = "done" /\ runs = 1
    /\ NamesOf(orig) = <<"tcp.matmul", "tcp.broadcast_to", "std.exp">>
    /\ orig[2].operands[1] = orig[1].results[1]
    /\ orig[3].operands[1] = orig[2].results[1]
    /\ \E a \in AllocsOf(func) : func[Len(func)].operands = func[a].results

AllZero(buf) == \A t \in DOMAIN buf.data : buf.data[t] = 0

IsWriteKind(n) == n \in {"refback.alloc_memref", "linalg.fill", "linalg.matmul"}

(* C8: the matmul lowering emits one allocation of the output buffer, then *)
(* one fill of it with the constant zero, then one linalg.matmul of the    *)
(* two inputs into it; when the linalg.matmul is about to run, right after *)
(* the fill, every element of the output buffer is zero.                   *)
C8_FillThenAccumulate ==
    /\ (last.call = "pattern" /\ last.op.name = "tcp.matmul")
       => /\ SelectSeq(NamesOf(last.created), IsWriteKind)
               = <<"refback.alloc_memref", "linalg.fill", "linalg.matmul">>
          /\ \A k \in DOMAIN last.created :
               /\ last.created[k].name = "linalg.fill"
                  => /\ last.created[k].operands[1] = last.repl[1]
                     /\ \E c \in DOMAIN last.created :
                          /\ last.created[c].name = "std.constant"
                          /\ last.created[c].attr = 0
                          /\ last.created[c].results = <<last.created[k].operands[2]>>
               /\ last.created[k].name = "linalg.matmul"
                  => last.created[k].operands = last.op.operands \o last.repl
               /\ last.created[k].name = "refback.alloc_memref"
                  => last.created[k].results = last.repl
    /\ (pc = "run" /\ MatmulCase /\ ip <= Len(func) /\ func[ip].name = "linalg.matmul")
       => /\ func[ip - 1].name = "linalg.fill"
          /\ AllZero(mem[env[func[ip].operands[3]]])

\* the accumulate of a 2x2 product is about to run on a zeroed 2x2 buffer
C8_Witness ==
    /\ pc = "run" /\ MatmulCase
    /\ ip <= Len(func) /\ func[ip].name = "linalg.matmul"
    /\ mem[ArgLhs].shape = <<MaxExtent, MaxExtent>>
    /\ mem[env[func[ip].operands[3]]].shape = <<MaxExtent, MaxExtent>>

(* C9: every operation the patterns, the resolver and the allocator create *)
(* is legal and is no tcp.broadcast_to and no tcp.matmul; so for a         *)
(* function of legal, tcp.broadcast_to and tcp.matmul operations one pass  *)
(* over it leaves neither kind and the run reports success.                *)
C9_SinglePass ==
    /\ last.call = "pattern"
       => \A k \in DOMAIN last.created :
            isLegal(last.created[k]) /\ ~isIllegal(last.created[k])
    /\ (pc = "done" /\ \A k \in DOMAIN orig : isLegal(orig[k]) \/ isIllegal(orig[k]))
       => /\ status = "success"
          /\ \A k \in DOMAIN func : isLegal(func[k]) /\ ~isIllegal(func[k])

\* a first run on legal operations, a broadcast and a matmul has succeeded
C9_Witness ==
    /\ pc = "done" /\ runs = 1 /\ status = "success"
    /\ \A k \in DOMAIN orig : isLegal(orig[k]) \/ isIllegal(orig[k])
    /\ \E k \in DOMAIN orig : orig[k].name = "tcp.broadcast_to"
    /\ \E k \in DOMAIN orig : orig[k].name = "tcp.matmul"
    /\ \E k \in DOMAIN orig : isLegal(orig[k])

InShape(buf, t) ==
    /\ DOMAIN t = DOMAIN mem[buf].shape
    /\ \A k \in DOMAIN t : 0 <= t[k] /\ t[k] < mem[buf].shape[k]

(* C10: in the loop nest generated for a legal broadcast every load reads  *)
(* the input inside its extents and every store writes the output inside   *)
(* its extents, and the rewrite reads outputExtents and inductionVariables *)
(* at indices within 0..outputRank-1.                                      *)
C10_AccessesInBounds ==
    (BroadcastCase /\ LegalBroadcast(mem[ArgLhs].shape, env[ArgShape]))
    => /\ ~fault /\ pc # "undefined"
       /\ last.call = "pattern"
          => \A k \in DOMAIN last.lookups :
               0 <= last.lookups[k] /\ last.lookups[k] <= last.op.outRank - 1
       /\ (pc = "run" /\ ip <= Len(func) /\ func[ip].name = "std.load")
          => /\ func[ip].operands[1] = ArgLhs
             /\ InShape(env[func[ip].operands[1]], opIndices(func[ip], 2))
       /\ (pc = "run" /\ ip <= Len(func) /\ func[ip].name = "std.store")
          => /\ func[ip].operands[2] = last.repl[1]
             /\ InShape(env[func[ip].operands[2]], opIndices(func[ip], 3))

\* input [1] broadcast to [2,2]: the load of the iteration (1,1) reads (0)
C10_Witness ==
    /\ pc = "run" /\ BroadcastCase
    /\ ip < Len(func) /\ func[ip].name = "std.load"
    /\ mem[ArgLhs].shape = <<1>>
    /\ env[ArgShape] = <<MaxExtent, MaxExtent>>
    /\ last.lookups = <<1, 1>>
    /\ opIndices(func[ip], 2) = <<0>>
    /\ opIndices(func[ip + 1], 3) = <<1, 1>>

====
